---- MODULE Spec2Model ----
(***************************************************************************)
(* State-machine model of MakeCoaddTempExpTask                             *)
(* (python/lsst/pipe/tasks/makeCoaddTempExp.py): configuration validation, *)
(* the per-patch loop of run over the visit groups, and the per-calexp     *)
(* accumulation of createTempExp into one canvas per warp type.            *)
(***************************************************************************)
EXTENDS Integers, Sequences, FiniteSets, TLC

\* ---------------------------------------------------------------- bounds
\* longest list of calexp references selectExposures returns
MaxRefs == 2
\* pixels of the patch bounding box
NPix == 1
\* how many times the caller invokes run on the same patch
MaxRuns == 2

\* the visits: every reference of the list may belong to a visit of its own
Visits == 1..MaxRefs
Pixels == 1..NPix
\* the flux zero-points (fluxMag0) a calexp can have; 0 is the zero-point of
\* a default-constructed Calib
ZeroPoints == {0, 1, 2}

\* ------------------------------------------------------- optional values
\* Python's None is the empty tuple, a present value x the 1-tuple <<x>>.
None == <<>>
Some(x) == <<x>>

\* ------------------------------------------------------ exact arithmetic
\* Pixel values and zero-point ratios are exact rationals <<num, den>> in
\* lowest terms with den > 0; <<0, 0>> is NaN.
NaN == <<0, 0>>

Abs(n) == IF n < 0 THEN -n ELSE n

RECURSIVE GCD(_, _)
GCD(a, b) == IF b = 0 THEN a ELSE GCD(b, a % b)

Norm(q) ==
    IF q[2] = 0 THEN NaN
    ELSE LET s == IF q[2] < 0 THEN -1 ELSE 1
             g == GCD(Abs(q[1]), Abs(q[2]))
         IN <<(s * q[1]) \div g, (s * q[2]) \div g>>

Times(x, y) == Norm(<<x[1] * y[1], x[2] * y[2]>>)

\* ---------------------------------------------------------- warp types
WarpTypes == {"direct", "psfMatched"}

\* MakeCoaddTempExpConfig fields that the task reads (lines 46-74) and the
\* legacy doPsfMatch flag inherited from CoaddBaseTask.ConfigClass.
Configs ==
    [makeDirect : BOOLEAN, makePsfMatched : BOOLEAN, doPsfMatch : BOOLEAN,
     doWrite : BOOLEAN, doOverwrite : BOOLEAN]

\* validate, had it translated doPsfMatch before checking the two flags
validateMoveCheck(c) ==
    IF c.doPsfMatch
    THEN [raised |-> FALSE,
          config |-> [c EXCEPT !.makePsfMatched = TRUE, !.makeDirect = FALSE]]
    ELSE IF ~c.makePsfMatched /\ ~c.makeDirect
         THEN [raised |-> TRUE, config |-> c]
         ELSE [raised |-> FALSE, config |-> c]

\* validate, had the translation of doPsfMatch left makeDirect alone
validateKeepDirect(c) ==
    IF ~c.makePsfMatched /\ ~c.makeDirect
    THEN [raised |-> TRUE, config |-> c]
    ELSE IF c.doPsfMatch
         THEN [raised |-> FALSE, config |-> [c EXCEPT !.makePsfMatched = TRUE]]
         ELSE [raised |-> FALSE, config |-> c]

\* MakeCoaddTempExpConfig.validate (lines 76-84): the result is the raised
\* flag and the configuration as validate leaves it.
validate(c) ==
    IF ~c.makePsfMatched /\ ~c.makeDirect
    THEN [raised |-> TRUE, config |-> c]
    ELSE IF c.doPsfMatch
         THEN [raised |-> FALSE,
               config |-> [c EXCEPT !.makePsfMatched = TRUE, !.makeDirect = FALSE]]
         ELSE [raised |-> FALSE, config |-> c]

\* MakeCoaddTempExpTask.getWarpTypeList (lines 435-443)
getWarpTypeList(c) ==
    (IF c.makeDirect THEN <<"direct">> ELSE <<>>)
        \o (IF c.makePsfMatched THEN <<"psfMatched">> ELSE <<>>)

WarpTypeSet(c) == {getWarpTypeList(c)[k] : k \in 1..Len(getWarpTypeList(c))}

\* run, lines 272-276: the dataset type of the references run returns
primaryWarpDataset(c) ==
    IF c.makePsfMatched /\ ~c.makeDirect THEN "psfMatched" ELSE "direct"

\* ------------------------------------------------------------- images
\* A pixel of a masked image: its value and the set of mask planes set on it.
\* (The variance plane plays no part in any decision of the task.)
NO_DATA == "NO_DATA"

\* CoaddBaseTask.getBadPixelMask as called on line 392: the planes that make a
\* warped pixel unusable.
getBadPixelMask == {NO_DATA}

EmptyPixel == [val |-> NaN, mask |-> {NO_DATA}]

\* Metadata of an exposure nobody has set yet: a default Calib has a flux
\* zero-point of 0, filter 0 is the unknown filter, and there is no PSF.
NoFilter == 0
NoPsf == <<"none", 0>>

\* MakeCoaddTempExpTask._prepareEmptyExposure (lines 428-433)
_prepareEmptyExposure ==
    [image |-> [p \in Pixels |-> EmptyPixel],
     calib |-> 0, filter |-> NoFilter, psf |-> NoPsf]

\* The pixel value calexp number ind of a group holds wherever it has data.
RawValue(ind) == <<ind, 1>>

\* What warpAndPsfMatch.run (called on lines 372-375) hands back for one warp
\* type when it produces it: the calexp resampled onto the patch, with data
\* on the pixels of good and NO_DATA elsewhere, carrying the calexp's Calib
\* and Filter and the PSF of that warp type.
WarpedExposure(w, ind, zp, good) ==
    [image |-> [p \in Pixels |->
                  IF p \in good THEN [val |-> RawValue(ind), mask |-> {}]
                  ELSE EmptyPixel],
     calib |-> zp, filter |-> ind, psf |-> <<w, ind>>]

\* the scaling with the ratio turned upside down
ScaleImageInverse(img, r) ==
    [p \in Pixels |->
        [img[p] EXCEPT !.val = Times(img[p].val, Norm(<<r[2], r[1]>>))]]

\* mimg *= scalar (lines 387-390): every pixel value is multiplied in place
ScaleImage(img, r) ==
    [p \in Pixels |-> [img[p] EXCEPT !.val = Times(img[p].val, r)]]

IsGoodPixel(px, badPixelMask) == px.mask \cap badPixelMask = {}

\* copyGoodPixels, had it left alone the destination pixels that already hold
\* data
copyGoodPixelsKeepFirst(dest, src, badPixelMask) ==
    LET take == {p \in Pixels : IsGoodPixel(src[p], badPixelMask)
                                  /\ NO_DATA \in dest[p].mask}
    IN [image |-> [p \in Pixels |-> IF p \in take THEN src[p] ELSE dest[p]],
        n |-> Cardinality(take)]

\* coaddUtils.copyGoodPixels(dest, src, badPixelMask) as called on lines
\* 391-392: every source pixel with none of the bad planes set is copied over
\* the destination pixel; the result is the destination and the number of
\* pixels copied.
copyGoodPixels(dest, src, badPixelMask) ==
    LET take == {p \in Pixels : IsGoodPixel(src[p], badPixelMask)}
    IN [image |-> [p \in Pixels |-> IF p \in take THEN src[p] ELSE dest[p]],
        n |-> Cardinality(take)]

\* ------------------------------------------------- coverage recording
\* inputRecorder.makeCoaddTempExpRecorder(visitId, num) (lines 350-351): an
\* empty table of contributing calexps for one warp
makeCoaddTempExpRecorder(visitId) ==
    [visitId |-> visitId, ccds |-> <<>>, finished |-> FALSE, nFinish |-> 0]

\* recorder.addCalExp(calExp, ccdId, nGoodPix) (line 405): one more record
addCalExp(recorder, calExp, ccdId, nGoodPix) ==
    [recorder EXCEPT !.ccds =
        Append(@, [ccdId |-> ccdId, goodPix |-> nGoodPix, calib |-> calExp.calib])]

\* recorder.finish(coaddTempExp, nGoodPix) (line 416): the table is closed
\* (nFinish counts the calls)
finish(recorder) == [recorder EXCEPT !.finished = TRUE, !.nFinish = @ + 1]

\* ------------------------------------------- createTempExp, per calexp
\* the adoption without the test of didSetMetadata
adoptsMetadataAlways(numGoodPix, didSet) == numGoodPix > 0

\* line 397: the canvas takes the Calib, Filter and Psf of an exposure that
\* gave it good pixels when it has none yet
adoptsMetadata(numGoodPix, didSet) == numGoodPix > 0 /\ ~didSet

\* the running total assigned, not added to
addGoodPixAssign(tot, numGoodPix) == numGoodPix

\* line 393: totGoodPix[warpType] += numGoodPix[warpType]
addGoodPix(tot, numGoodPix) == tot + numGoodPix

\* the record kept only for a calexp that gave pixels
recordCalExpIfGood(recorder, calExp, ccdId, numGoodPix) ==
    IF numGoodPix > 0 THEN addCalExp(recorder, calExp, ccdId, numGoodPix)
    ELSE recorder

\* the record of a calexp put in place of the table
recordCalExpReplace(recorder, calExp, ccdId, numGoodPix) ==
    addCalExp([recorder EXCEPT !.ccds = <<>>], calExp, ccdId, numGoodPix)

\* line 405: the calexp is recorded with its ccdId and its number of good
\* pixels, whatever that number
recordCalExp(recorder, calExp, ccdId, numGoodPix) ==
    addCalExp(recorder, calExp, ccdId, numGoodPix)

\* The merge stage of createTempExp for one warp type: one pass of the body
\* of the loop of lines 381-405.  st holds the dictionaries of createTempExp
\* (and the log of the merges done so far); warped is the result of
\* warpAndPsfMatch.run, calExp the loaded calexp, ind its number.  A zero
\* flux zero-point of the exposure makes the division of lines 388-389 raise.
MergeWarpType(st, w, warped, calExp, ind, ccdId) ==
    IF warped[w] = None THEN st
    ELSE
    LET exposure == warped[w][1]
        coaddTempExp == st.coaddTempExps[w]
        didSet == st.didSetMetadata[w]
    IN  IF didSet /\ exposure.calib = 0
        THEN [st EXCEPT !.raised = TRUE]
        ELSE
        LET mimg == IF didSet
                    THEN ScaleImage(exposure.image,
                                    Norm(<<coaddTempExp.calib, exposure.calib>>))
                    ELSE exposure.image
            copied == copyGoodPixels(coaddTempExp.image, mimg, getBadPixelMask)
            adopt == adoptsMetadata(copied.n, didSet)
        IN  [st EXCEPT
                !.coaddTempExps[w] =
                    IF adopt
                    THEN [image |-> copied.image, calib |-> exposure.calib,
                          filter |-> exposure.filter, psf |-> exposure.psf]
                    ELSE [@ EXCEPT !.image = copied.image],
                !.totGoodPix[w] = addGoodPix(@, copied.n),
                !.didSetMetadata[w] = @ \/ adopt,
                !.inputRecorder[w] = recordCalExp(@, calExp, ccdId, copied.n),
                !.mergeLog[w] = Append(@,
                    [ind |-> ind, exposure |-> exposure, numGoodPix |-> copied.n,
                     adopted |-> IF didSet THEN Some(coaddTempExp.calib) ELSE None])]

\* the try block, had line 384 left the loop at a warp type that is None
RECURSIVE MergeStageBreakAtNone(_, _, _, _, _, _)
MergeStageBreakAtNone(st, warpTypeList, warped, calExp, ind, ccdId) ==
    IF warpTypeList = <<>> \/ st.raised THEN st
    ELSE IF warped[Head(warpTypeList)] = None THEN st
    ELSE MergeStageBreakAtNone(
             MergeWarpType(st, Head(warpTypeList), warped, calExp, ind, ccdId),
             Tail(warpTypeList), warped, calExp, ind, ccdId)

\* The try block of lines 379-409: the warp types in the order of
\* warpTypeList; an exception ends the block and keeps what was done before.
RECURSIVE MergeStage(_, _, _, _, _, _)
MergeStage(st, warpTypeList, warped, calExp, ind, ccdId) ==
    IF warpTypeList = <<>> \/ st.raised THEN st
    ELSE MergeStage(MergeWarpType(st, Head(warpTypeList), warped, calExp, ind, ccdId),
                    Tail(warpTypeList), warped, calExp, ind, ccdId)

\* ------------------------------------------------------ calexp references
\* A calexp data reference: the visit it belongs to and its position in the
\* list selectExposures returned, which identifies it.
RefIds == 1..MaxRefs

RECURSIVE SeqsUpTo(_, _)
SeqsUpTo(S, n) ==
    IF n = 0 THEN {<<>>}
    ELSE LET shorter == SeqsUpTo(S, n - 1)
         IN shorter \cup {Append(q, x) : q \in {r \in shorter : Len(r) = n - 1}, x \in S}

\* the lists selectExposures can return (line 278)
SelectedLists ==
    {[k \in 1..Len(vs) |-> [visit |-> vs[k], id |-> k]] : vs \in SeqsUpTo(Visits, MaxRefs)}

\* line 283 without the test that the calexp exists
ExistingRefsAll(refs, exists) == refs

\* line 283: the references whose calexp exists, in order
ExistingRefs(refs, exists) == SelectSeq(refs, LAMBDA r : r.id \in exists)

RECURSIVE VisitOrder(_)
VisitOrder(refs) ==
    IF refs = <<>> THEN <<>>
    ELSE LET v == refs[1].visit
         IN <<v>> \o VisitOrder(SelectSeq(Tail(refs), LAMBDA r : r.visit # v))

\* coaddHelpers.groupPatchExposures (called on lines 286-287): one group per
\* visit, in the order the visits are first seen, each with its references in
\* list order; an empty list is an EmptyInputError.
groupPatchExposures(refs) ==
    [raised |-> refs = <<>>,
     groups |-> [k \in 1..Len(VisitOrder(refs)) |->
                    [visit |-> VisitOrder(refs)[k],
                     refs |-> SelectSeq(refs, LAMBDA r : r.visit = VisitOrder(refs)[k])]]]

\* ------------------------------------------------------------------ state
VARIABLES
    config,            \* the task's configuration
    givenConfig,       \* history: the configuration as the caller wrote it
    pc,                \* where the caller / run / createTempExp stands
    runNo,             \* which invocation of run this is
    result,            \* what run returned: None or Some(list of visits)
    selected,          \* what selectExposures returns for the patch
    existing,          \* the ids of the references whose calexp exists
    hasCcdExposureId,  \* whether the butler can map a calexp to a ccdExposureId
    groups,            \* groupData.groups of the current run
    i,                 \* run's loop index over the groups (1-based)
    dataRefList,       \* run's list of output references (their visits)
    sink,              \* the datasets the butler holds: <<visit, warpType>>
    calExpInd,         \* createTempExp's loop index (0-based, as in the code)
    ccdId,             \* createTempExp's ccdId of the current calexp
    calExp,            \* the loaded calexp (None before it is loaded)
    warpedAndMatched,  \* the warp result of the current calexp
    totGoodPix, didSetMetadata, coaddTempExps, inputRecorder,
                       \* createTempExp's dictionaries, keyed by warp type
    exps,              \* the dictionary createTempExp returned to run
    mergeLog,          \* history: the merges done into each canvas
    lastError,         \* history: how the last calexp was abandoned
    nLoads, nWarps,    \* history: loads / warps per reference in this run
    nPuts,             \* history: puts per dataset in this run
    sinkAtStart,       \* history: the sink when this run began
    prevResult         \* history: what the previous run returned

inputVars == <<givenConfig, selected, existing, hasCcdExposureId>>
runVars == <<groups, i, dataRefList>>
calexpVars == <<calExpInd, ccdId, calExp, warpedAndMatched>>
dictVars == <<totGoodPix, didSetMetadata, coaddTempExps, inputRecorder>>
historyVars == <<mergeLog, lastError, nLoads, nWarps, nPuts, sinkAtStart, prevResult>>
vars == <<config, pc, runNo, result, inputVars, runVars, sink, calexpVars, dictVars, exps,
          historyVars>>

\* a dictionary keyed by warp type that does not exist (yet, or any more)
NoDict == <<>>

Init ==
    /\ config \in Configs
    /\ givenConfig = config
    /\ pc = "validate"
    /\ runNo = 0
    /\ result = None
    /\ selected = <<>>
    /\ existing = {}
    /\ hasCcdExposureId = FALSE
    /\ groups = <<>>
    /\ i = 0
    /\ dataRefList = <<>>
    /\ sink = {}
    /\ calExpInd = 0
    /\ ccdId = 0
    /\ calExp = None
    /\ warpedAndMatched = NoDict
    /\ totGoodPix = NoDict
    /\ didSetMetadata = NoDict
    /\ coaddTempExps = NoDict
    /\ inputRecorder = NoDict
    /\ exps = NoDict
    /\ mergeLog = NoDict
    /\ lastError = "none"
    /\ nLoads = [r \in RefIds |-> 0]
    /\ nWarps = [r \in RefIds |-> 0]
    /\ nPuts = [d \in Visits \X WarpTypes |-> 0]
    /\ sinkAtStart = {}
    /\ prevResult = None

\* ---------------------------------------------------------------- actions
\* The configuration is validated before the task is built and run.
Validate ==
    /\ pc = "validate"
    /\ LET v == validate(config)
       IN /\ config' = v.config
          /\ pc' = IF v.raised THEN "invalid" ELSE "idle"
    /\ UNCHANGED <<runNo, result, inputVars, runVars, sink, calexpVars,
                   dictVars, exps, historyVars>>

\* run without the test of line 279
noExposuresNever(refs) == FALSE

\* run, line 279: selectExposures found nothing
noExposures(refs) == Len(refs) = 0

\* run, lines 270-290.  The first invocation fixes what the selector and the
\* butler report for the patch; later invocations see the same.  A further
\* invocation is followed where it can differ from the first: where run reads
\* the sink, which it does only with doOverwrite disabled.
RunBegin ==
    /\ pc \in {"idle", "returned"}
    /\ runNo < MaxRuns
    /\ runNo > 0 => ~config.doOverwrite
    /\ runNo' = runNo + 1
    /\ IF runNo = 0
       THEN /\ selected' \in SelectedLists
            /\ existing' \in SUBSET {k \in RefIds : k <= Len(selected')}
            /\ hasCcdExposureId' \in BOOLEAN
       ELSE UNCHANGED <<selected, existing, hasCcdExposureId>>
    /\ LET g == groupPatchExposures(ExistingRefs(selected', existing'))
       IN IF noExposures(selected')
          THEN /\ result' = None
               /\ pc' = "returned"
               /\ groups' = <<>>
               /\ i' = 0
          ELSE IF g.raised
          THEN /\ result' = None
               /\ pc' = "raised"
               /\ groups' = <<>>
               /\ i' = 0
          ELSE /\ result' = None
               /\ pc' = "visit"
               /\ groups' = g.groups
               /\ i' = 1
    /\ dataRefList' = <<>>
    /\ nLoads' = [r \in RefIds |-> 0]
    /\ nWarps' = [r \in RefIds |-> 0]
    /\ nPuts' = [d \in Visits \X WarpTypes |-> 0]
    /\ sinkAtStart' = sink
    /\ prevResult' = result
    /\ UNCHANGED <<config, givenConfig, sink, calexpVars, dictVars, exps, mergeLog, lastError>>

\* tempExpRef.datasetExists(datasetType=primaryWarpDataset), line 294
PrimaryExists(visit) == <<visit, primaryWarpDataset(config)>> \in sink

\* run without the test of line 294
skipsVisitNever(visit) == FALSE

\* line 294: the visit is skipped when its warp exists and may not be
\* overwritten
skipsVisit(visit) == ~config.doOverwrite /\ PrimaryExists(visit)

\* run, lines 291-297: the warp exists and may not be overwritten
SkipExisting ==
    /\ pc = "visit"
    /\ i <= Len(groups)
    /\ skipsVisit(groups[i].visit)
    /\ dataRefList' = Append(dataRefList, groups[i].visit)
    /\ i' = i + 1
    /\ exps' = NoDict
    /\ totGoodPix' = NoDict
    /\ didSetMetadata' = NoDict
    /\ inputRecorder' = NoDict
    /\ mergeLog' = NoDict
    /\ lastError' = "none"
    /\ UNCHANGED <<config, pc, runNo, result, inputVars, groups, sink,
                   calexpVars, coaddTempExps, nLoads, nWarps, nPuts, sinkAtStart,
                   prevResult>>

\* run, lines 298-308, and createTempExp, lines 345-353
BeginTempExp ==
    /\ pc = "visit"
    /\ i <= Len(groups)
    /\ ~skipsVisit(groups[i].visit)
    /\ pc' = "calexp"
    /\ calExpInd' = 0
    /\ totGoodPix' = [w \in WarpTypeSet(config) |-> 0]
    /\ didSetMetadata' = [w \in WarpTypeSet(config) |-> FALSE]
    /\ coaddTempExps' = [w \in WarpTypeSet(config) |-> _prepareEmptyExposure]
    /\ inputRecorder' =
          [w \in WarpTypeSet(config) |-> makeCoaddTempExpRecorder(groups[i].visit)]
    /\ mergeLog' = [w \in WarpTypeSet(config) |-> <<>>]
    /\ exps' = NoDict
    /\ lastError' = "none"
    /\ UNCHANGED <<config, runNo, result, inputVars, runVars, sink, ccdId,
                   calExp, warpedAndMatched, nLoads, nWarps, nPuts, sinkAtStart,
                   prevResult>>

\* run, line 321
RunReturn ==
    /\ pc = "visit"
    /\ i > Len(groups)
    /\ result' = Some(dataRefList)
    /\ pc' = "returned"
    /\ exps' = NoDict
    /\ totGoodPix' = NoDict
    /\ didSetMetadata' = NoDict
    /\ inputRecorder' = NoDict
    /\ mergeLog' = NoDict
    /\ lastError' = "none"
    /\ UNCHANGED <<config, runNo, inputVars, runVars, sink, calexpVars,
                   coaddTempExps, nLoads, nWarps, nPuts, sinkAtStart, prevResult>>

\* The reference createTempExp's loop stands at.
CurrentRef == groups[i].refs[calExpInd + 1]

\* calExpRef.get("ccdExposureId") for a reference (line 358)
ccdExposureId(ref) == 10 * ref.visit + ref.id

\* the same calexp taken again
NextCalexpRetry ==
    /\ calExpInd' = calExpInd
    /\ calExp' = None
    /\ warpedAndMatched' = NoDict
    /\ pc' = "calexp"

\* a 'break' in place of the 'continue'
NextCalexpBreak ==
    /\ calExpInd' = Len(groups[i].refs)
    /\ calExp' = None
    /\ warpedAndMatched' = NoDict
    /\ pc' = "calexp"

\* the next iteration of the loop over the calexps (a 'continue')
NextCalexp ==
    /\ calExpInd' = calExpInd + 1
    /\ calExp' = None
    /\ warpedAndMatched' = NoDict
    /\ pc' = "calexp"

\* createTempExp, lines 354-370: the ccdId is looked up (the index is the
\* fallback) and the calexp is loaded; a failed load skips the calexp.
LoadCalexp ==
    /\ pc = "calexp"
    /\ calExpInd < Len(groups[i].refs)
    /\ ccdId' = IF hasCcdExposureId THEN ccdExposureId(CurrentRef) ELSE calExpInd
    /\ nLoads' = [nLoads EXCEPT ![CurrentRef.id] = @ + 1]
    /\ \/ \E zp \in ZeroPoints :
             /\ calExp' = Some([id |-> CurrentRef.id, calib |-> zp])
             /\ pc' = "warp"
             /\ lastError' = "none"
             /\ UNCHANGED <<calExpInd, warpedAndMatched>>
       \/ /\ NextCalexp
          /\ lastError' = "load"
    /\ UNCHANGED <<config, runNo, result, inputVars, runVars, sink, dictVars,
                   exps, mergeLog, nWarps, nPuts, sinkAtStart, prevResult>>

\* What warpAndPsfMatch.run can return for a calexp: for each requested warp
\* type either None or the warped exposure, good on some set of pixels.
WarpResults(c, ce) ==
    LET opts(w) == {None} \cup
                   {Some(WarpedExposure(w, ce.id, ce.calib, good)) : good \in SUBSET Pixels}
    IN {f \in [WarpTypeSet(c) -> UNION {opts(w) : w \in WarpTypeSet(c)}] :
            \A w \in WarpTypeSet(c) : f[w] \in opts(w)}

\* createTempExp, lines 371-378: one call of the warp primitive for all the
\* requested warp types; a failure skips the calexp.
WarpCalexp ==
    /\ pc = "warp"
    /\ nWarps' = [nWarps EXCEPT ![calExp[1].id] = @ + 1]
    /\ \/ /\ warpedAndMatched' \in WarpResults(config, calExp[1])
          /\ pc' = "merge"
          /\ UNCHANGED <<calExpInd, calExp, lastError>>
       \/ /\ NextCalexp
          /\ lastError' = "warp"
    /\ UNCHANGED <<config, runNo, result, inputVars, runVars, sink, ccdId,
                   dictVars, exps, mergeLog, nLoads, nPuts, sinkAtStart, prevResult>>

\* createTempExp, lines 379-409: the merge of the warped calexp into the
\* canvas of every warp type, then the next calexp
MergeCalexp ==
    /\ pc = "merge"
    /\ LET st == MergeStage([coaddTempExps |-> coaddTempExps,
                             totGoodPix |-> totGoodPix,
                             didSetMetadata |-> didSetMetadata,
                             inputRecorder |-> inputRecorder,
                             mergeLog |-> mergeLog,
                             raised |-> FALSE],
                            getWarpTypeList(config), warpedAndMatched, calExp[1],
                            calExp[1].id, ccdId)
       IN /\ coaddTempExps' = st.coaddTempExps
          /\ totGoodPix' = st.totGoodPix
          /\ didSetMetadata' = st.didSetMetadata
          /\ inputRecorder' = st.inputRecorder
          /\ mergeLog' = st.mergeLog
          /\ lastError' = IF st.raised THEN "merge" ELSE "none"
    /\ NextCalexp
    /\ UNCHANGED <<config, runNo, result, inputVars, runVars, sink, ccdId,
                   exps, nLoads, nWarps, nPuts, sinkAtStart, prevResult>>

\* the PSF CoaddPsf builds from the recorder's table (lines 418-420)
CoaddPsf(recorder) == <<"CoaddPsf", recorder.visitId>>

\* the canvas returned whatever it holds
finalExposureAlways(w) == Some(coaddTempExps[w])

\* line 415: the canvas of warp type w is kept
keepsCanvas(w) == totGoodPix[w] > 0 /\ didSetMetadata[w]

\* the table closed whether the canvas is kept or not
finalRecorderAlways(w) == finish(inputRecorder[w])

\* lines 415-416: the table of a canvas that is kept is closed
finalRecorder(w) ==
    IF keepsCanvas(w) THEN finish(inputRecorder[w]) ELSE inputRecorder[w]

\* the composite PSF given to every canvas that is kept
finalExposureCoaddPsfAll(w) ==
    IF keepsCanvas(w)
    THEN Some([coaddTempExps[w] EXCEPT !.psf = CoaddPsf(finish(inputRecorder[w]))])
    ELSE None

\* createTempExp, lines 411-426, for one warp type: the canvas is kept when
\* it has good pixels and metadata, and is None otherwise
finalExposure(w) ==
    IF keepsCanvas(w)
    THEN Some(IF w = "direct"
              THEN [coaddTempExps[w] EXCEPT !.psf = CoaddPsf(finish(inputRecorder[w]))]
              ELSE coaddTempExps[w])
    ELSE None

\* createTempExp, lines 411-426: all calexps are done, the result is returned
FinishTempExp ==
    /\ pc = "calexp"
    /\ calExpInd = Len(groups[i].refs)
    /\ exps' = [w \in WarpTypeSet(config) |-> finalExposure(w)]
    /\ inputRecorder' = [w \in WarpTypeSet(config) |-> finalRecorder(w)]
    /\ coaddTempExps' = NoDict
    /\ pc' = "persist"
    /\ UNCHANGED <<config, runNo, result, inputVars, runVars, sink,
                   calexpVars, totGoodPix, didSetMetadata, historyVars>>

\* every visit taken to have given a warp
AnyExposureAlways(d) == TRUE

\* any(exps.values()), line 310
AnyExposure(d) == \E w \in DOMAIN d : d[w] # None

\* only the primary dataset put, for every visit that gave a warp
putDatasetsPrimaryOnly(visit, d) ==
    IF config.doWrite /\ AnyExposure(d)
    THEN {<<visit, primaryWarpDataset(config)>>} ELSE {}

\* run, lines 315-319: the datasets run puts for a visit
putDatasets(visit, d) ==
    IF config.doWrite
    THEN {<<visit, w>> : w \in {x \in DOMAIN d : d[x] # None}}
    ELSE {}

\* run, lines 310-319: the visit is listed when a warp was made, and every
\* warp made is persisted when writing is enabled
PersistVisit ==
    /\ pc = "persist"
    /\ dataRefList' = IF AnyExposure(exps)
                      THEN Append(dataRefList, groups[i].visit) ELSE dataRefList
    /\ LET made == putDatasets(groups[i].visit, exps)
       IN /\ sink' = sink \cup made
          /\ nPuts' = [d \in Visits \X WarpTypes |->
                          IF d \in made THEN nPuts[d] + 1 ELSE nPuts[d]]
    /\ i' = i + 1
    /\ pc' = "visit"
    /\ UNCHANGED <<config, runNo, result, inputVars, groups, calexpVars,
                   dictVars, exps, mergeLog, lastError, nLoads, nWarps, sinkAtStart,
                   prevResult>>

Next ==
    \/ Validate
    \/ RunBegin
    \/ SkipExisting
    \/ BeginTempExp
    \/ RunReturn
    \/ LoadCalexp
    \/ WarpCalexp
    \/ MergeCalexp
    \/ FinishTempExp
    \/ PersistVisit

Spec == Init /\ [][Next]_vars

\* ------------------------------------------------------------ properties
\* The image of the canvas of warp type w: the one under construction or,
\* once createTempExp has returned, the one it returned.
HasCanvas(w) ==
    \/ w \in DOMAIN coaddTempExps
    \/ w \in DOMAIN exps /\ exps[w] # None

Canvas(w) == IF w \in DOMAIN coaddTempExps THEN coaddTempExps[w] ELSE exps[w][1]

\* the merges into canvas w whose exposure had a good value at pixel p
GoodAt(w, p) ==
    {k \in 1..Len(mergeLog[w]) :
        IsGoodPixel(mergeLog[w][k].exposure.image[p], getBadPixelMask)}

Min(S) == CHOOSE x \in S : \A y \in S : x <= y
Max(S) == CHOOSE x \in S : \A y \in S : x >= y

\* the value a logged merge offered the canvas at pixel p: the exposure's
\* value, rescaled when the canvas had adopted a zero-point by then
Offered(entry, p) ==
    IF entry.adopted = None THEN entry.exposure.image[p].val
    ELSE Times(entry.exposure.image[p].val,
               Norm(<<entry.adopted[1], entry.exposure.calib>>))

C2_CalibrationConsistency ==
    \A w \in WarpTypes : HasCanvas(w) =>
        \A p \in Pixels : GoodAt(w, p) # {} =>
            LET entry == mergeLog[w][Max(GoodAt(w, p))]
                raw == entry.exposure.image[p].val
            IN IF entry.adopted = None
               THEN /\ Canvas(w).calib = entry.exposure.calib
                    /\ Canvas(w).image[p].val = raw
               ELSE Canvas(w).image[p].val =
                        Times(raw, Norm(<<Canvas(w).calib, entry.exposure.calib>>))

\* a canvas of adopted zero-point 1 holds a pixel of an exposure of zero-point
\* 2, at half its raw value
C2_Witness ==
    \E w \in WarpTypes : HasCanvas(w) /\
        \E p \in Pixels : GoodAt(w, p) # {} /\
            LET entry == mergeLog[w][Max(GoodAt(w, p))]
            IN /\ entry.adopted = Some(1)
               /\ Canvas(w).calib = 1
               /\ entry.exposure.calib = 2
               /\ Canvas(w).image[p].val = Times(entry.exposure.image[p].val, <<1, 2>>)

\* the merges into canvas w that copied at least one pixel
Contributing(w) == {k \in 1..Len(mergeLog[w]) : mergeLog[w][k].numGoodPix > 0}

\* C3: the Calib, Filter and Psf of a canvas are those of the first exposure
\* in group order that contributed a good pixel to it; before any exposure
\* has, nothing is adopted, and no later exposure changes what was adopted
\* (the Calib and Filter are still those when the canvas is returned).
C3_AdoptFromFirstContributor ==
    \A w \in WarpTypes :
        /\ w \in DOMAIN coaddTempExps =>
              IF Contributing(w) = {}
              THEN /\ ~didSetMetadata[w]
                   /\ coaddTempExps[w].calib = _prepareEmptyExposure.calib
                   /\ coaddTempExps[w].filter = NoFilter
                   /\ coaddTempExps[w].psf = NoPsf
              ELSE LET first == mergeLog[w][Min(Contributing(w))].exposure
                   IN /\ didSetMetadata[w]
                      /\ coaddTempExps[w].calib = first.calib
                      /\ coaddTempExps[w].filter = first.filter
                      /\ coaddTempExps[w].psf = first.psf
        /\ (w \in DOMAIN exps /\ exps[w] # None) =>
              /\ Contributing(w) # {}
              /\ LET first == mergeLog[w][Min(Contributing(w))].exposure
                 IN /\ exps[w][1].calib = first.calib
                    /\ exps[w][1].filter = first.filter

\* for one warp type an exposure that gave no pixel was merged first and the
\* next one was adopted from; for the other the first exposure was adopted
\* from and a later contributor of another zero-point left that alone
C3_Witness ==
    /\ \E w \in DOMAIN coaddTempExps :
        /\ Len(mergeLog[w]) >= 2
        /\ mergeLog[w][1].numGoodPix = 0
        /\ mergeLog[w][2].numGoodPix > 0
        /\ mergeLog[w][1].exposure.calib # mergeLog[w][2].exposure.calib
        /\ coaddTempExps[w].calib = mergeLog[w][2].exposure.calib
    /\ \E w \in DOMAIN coaddTempExps :
        /\ Len(mergeLog[w]) >= 2
        /\ mergeLog[w][1].numGoodPix > 0
        /\ mergeLog[w][2].numGoodPix > 0
        /\ mergeLog[w][1].exposure.calib # mergeLog[w][2].exposure.calib
        /\ coaddTempExps[w].calib = mergeLog[w][1].exposure.calib

\* C4: when createTempExp returns, the canvas of a requested warp type is
\* None exactly when its running total of good pixels is zero, and a canvas
\* that is returned has at least one pixel with data.
C4_AbsentIffNoGoodPixels ==
    pc = "persist" =>
        \A w \in WarpTypeSet(config) :
            /\ w \in DOMAIN exps
            /\ exps[w] = None <=> totGoodPix[w] = 0
            /\ exps[w] # None =>
                  \E p \in Pixels : NO_DATA \notin exps[w][1].image[p].mask

\* createTempExp returned a canvas for one warp type and None for the other
C4_Witness ==
    /\ pc = "persist"
    /\ \E w \in DOMAIN exps : exps[w] = None /\ totGoodPix[w] = 0
    /\ \E w \in DOMAIN exps : exps[w] # None /\ totGoodPix[w] > 0

Range(q) == {q[k] : k \in 1..Len(q)}

\* the step in which the load, or the warp, of the current calexp fails
LoadFails == pc = "calexp" /\ nLoads' # nLoads /\ lastError' = "load"
WarpFails == pc = "warp" /\ lastError' = "warp"

\* C5: a calexp whose load or warp fails changes no canvas, running total,
\* adoption flag or coverage table; the failure stays inside createTempExp,
\* which goes on with the next calexp of the group, and createTempExp returns
\* only after it has tried to load every calexp of the group.
C5_FailedCalexpIsSkipped ==
    /\ [][(LoadFails \/ WarpFails) =>
            /\ UNCHANGED <<dictVars, mergeLog, exps, result, sink, dataRefList>>
            /\ pc' = "calexp"
            /\ calExpInd' = calExpInd + 1]_vars
    /\ [](pc = "persist" =>
            \A k \in 1..Len(groups[i].refs) : nLoads[groups[i].refs[k].id] = 1)

\* the first calexp of a group gave good pixels, the second failed to warp,
\* and the canvas still has what the first gave it
C5_Witness ==
    /\ pc = "calexp"
    /\ lastError = "warp"
    /\ calExpInd = 2
    /\ \E w \in DOMAIN coaddTempExps :
          /\ totGoodPix[w] > 0
          /\ Len(inputRecorder[w].ccds) = 1
          /\ didSetMetadata[w]

\* C6: validation raises exactly when neither warp type is requested, which
\* is before run has been invoked and any calexp loaded or warped; after a
\* successful validation getWarpTypeList is not empty.
C6_NeitherWarpTypeIsInvalid ==
    pc # "validate" =>
        /\ pc = "invalid" <=> (~givenConfig.makeDirect /\ ~givenConfig.makePsfMatched)
        /\ pc = "invalid" =>
              /\ runNo = 0
              /\ \A r \in RefIds : nLoads[r] = 0 /\ nWarps[r] = 0
        /\ pc # "invalid" => getWarpTypeList(config) # <<>>

\* validation has raised for a configuration with neither flag, though the
\* legacy flag was set
C6_Witness ==
    /\ pc = "invalid"
    /\ givenConfig.doPsfMatch
    /\ ~givenConfig.makeDirect /\ ~givenConfig.makePsfMatched

\* C7 as the spec states it: with doPsfMatch set, validation leaves the
\* configuration as psf-matched only whatever the two explicit flags say.
C7_LegacyFlagAlwaysTranslated ==
    (pc # "validate" /\ givenConfig.doPsfMatch) =>
        config.makePsfMatched /\ ~config.makeDirect

\* C7, amended: with doPsfMatch set and at least one of makeDirect and
\* makePsfMatched true, validation leaves makePsfMatched = true and
\* makeDirect = false whatever the two flags say; with both false it raises
\* before the translation and leaves the flags as they are.
C7_LegacyFlagTranslatedWhenValid ==
    (pc # "validate" /\ givenConfig.doPsfMatch) =>
        IF givenConfig.makeDirect \/ givenConfig.makePsfMatched
        THEN /\ pc # "invalid"
             /\ config.makePsfMatched /\ ~config.makeDirect
             /\ getWarpTypeList(config) = <<"psfMatched">>
        ELSE /\ pc = "invalid"
             /\ config = givenConfig

\* a configuration that asked for the direct warp only, with the legacy flag
\* set, has been validated
C7_Witness ==
    /\ pc = "idle"
    /\ givenConfig.doPsfMatch
    /\ givenConfig.makeDirect /\ ~givenConfig.makePsfMatched
    /\ config.makePsfMatched /\ ~config.makeDirect

\* the visits whose primary warp the sink held when this run began
ExistedAtStart(visit) == <<visit, primaryWarpDataset(config)>> \in sinkAtStart

\* C8: with doOverwrite disabled, for a visit whose warp exists run loads,
\* warps and puts nothing and lists the visit; so a second run lists every
\* visit of the first run's list whose warp exists, without warping, and
\* returns the same list when that is all of them.
C8_ExistingWarpIsSkipped ==
    (runNo >= 1 /\ ~config.doOverwrite) =>
        /\ \A k \in 1..Len(groups) :
              ExistedAtStart(groups[k].visit) =>
                  /\ \A j \in 1..Len(groups[k].refs) :
                        /\ nLoads[groups[k].refs[j].id] = 0
                        /\ nWarps[groups[k].refs[j].id] = 0
                  /\ \A w \in WarpTypes : nPuts[<<groups[k].visit, w>>] = 0
                  /\ k < i => groups[k].visit \in Range(dataRefList)
        /\ (pc = "returned" /\ result # None /\ prevResult # None) =>
              /\ \A v \in Range(prevResult[1]) :
                    ExistedAtStart(v) => v \in Range(result[1])
              /\ (\A k \in 1..Len(groups) : ExistedAtStart(groups[k].visit)) =>
                    /\ result[1] = [k \in 1..Len(groups) |-> groups[k].visit]
                    /\ \A r \in RefIds : nWarps[r] = 0

\* a second run with doOverwrite disabled has returned the list of the first
\* run, whose warps all existed, without a single warp
C8_Witness ==
    /\ runNo = 2 /\ pc = "returned" /\ ~config.doOverwrite
    /\ result # None /\ result = prevResult
    /\ Len(result[1]) = 2
    /\ \A v \in Range(result[1]) : ExistedAtStart(v)
    /\ \A r \in RefIds : nLoads[r] = 0 /\ nWarps[r] = 0

\* run has just dealt with the result of createTempExp for a visit
JustPersisted == pc = "visit" /\ exps # NoDict

\* createTempExp returned None for every requested warp type
AllAbsent == \A w \in DOMAIN exps : exps[w] = None

\* C9: a visit for which createTempExp returns None for every warp type is
\* not listed and nothing is put for it, and run does not raise: it goes on,
\* and when it returns it has dealt with every visit of the patch.
C9_EmptyVisitDoesNotFailRun ==
    /\ JustPersisted =>
          (AllAbsent <=> groups[i - 1].visit \notin Range(dataRefList))
    /\ (JustPersisted /\ AllAbsent) =>
          \A w \in WarpTypes : nPuts[<<groups[i - 1].visit, w>>] = 0
    /\ pc = "raised" => groups = <<>>
    /\ (pc = "returned" /\ result # None) =>
          \A k \in 1..Len(groups) :
              \/ ~config.doOverwrite /\ ExistedAtStart(groups[k].visit)
              \/ \A j \in 1..Len(groups[k].refs) : nLoads[groups[k].refs[j].id] = 1

\* run has returned a list with the second visit only: the first visit was
\* dealt with (its calexp was loaded) and gave no warp
C9_Witness ==
    /\ pc = "returned" /\ result # None
    /\ Len(groups) = 2
    /\ result[1] = <<groups[2].visit>>
    /\ nLoads[groups[1].refs[1].id] = 1
    /\ ~ExistedAtStart(groups[1].visit)

\* C10: with doWrite enabled, for a visit run has processed each warp type is
\* put exactly once under its own dataset when createTempExp returned a
\* canvas for it, and not at all when it returned None.
C10_PersistedIffPresent ==
    /\ (JustPersisted /\ config.doWrite) =>
          \A w \in WarpTypes :
              LET d == <<groups[i - 1].visit, w>>
              IN /\ nPuts[d] = IF w \in DOMAIN exps /\ exps[w] # None THEN 1 ELSE 0
                 /\ nPuts[d] = 1 => d \in sink
    /\ \A d \in Visits \X WarpTypes : nPuts[d] <= 1
    /\ config.doWrite => sink = sinkAtStart \cup {d \in Visits \X WarpTypes : nPuts[d] = 1}

\* with doWrite enabled createTempExp returned a canvas for one warp type and
\* None for the other, and exactly the canvas was put
C10_Witness ==
    /\ JustPersisted /\ config.doWrite
    /\ \E w \in DOMAIN exps :
          exps[w] = None /\ nPuts[<<groups[i - 1].visit, w>>] = 0
    /\ \E w \in DOMAIN exps :
          exps[w] # None /\ nPuts[<<groups[i - 1].visit, w>>] = 1

\* nothing was loaded, warped or put since the run began
NoWork ==
    /\ \A r \in RefIds : nLoads[r] = 0 /\ nWarps[r] = 0
    /\ \A d \in Visits \X WarpTypes : nPuts[d] = 0
    /\ sink = sinkAtStart

\* C11: when selectExposures finds no calexp for the patch, run returns
\* None without raising; it groups nothing, loads and warps nothing and puts
\* nothing.
C11_NoExposuresReturnsEmpty ==
    (runNo >= 1 /\ selected = <<>>) =>
        /\ pc = "returned"
        /\ result = None
        /\ groups = <<>> /\ dataRefList = <<>>
        /\ coaddTempExps = NoDict /\ exps = NoDict
        /\ NoWork

C11_Witness == runNo >= 1 /\ selected = <<>> /\ pc = "returned" /\ result = None

\* every selected calexp is missing
AllMissing == selected # <<>> /\ \A k \in 1..Len(selected) : selected[k].id \notin existing

\* C12: when calexps were selected and none of them exists, the list given to
\* groupPatchExposures is empty and the grouping raises: run returns no list,
\* and nothing is loaded, warped or put.
C12_AllMissingRaises ==
    (runNo >= 1 /\ AllMissing) =>
        /\ pc = "raised"
        /\ result = None
        /\ dataRefList = <<>>
        /\ NoWork

C12_Witness == runNo >= 1 /\ AllMissing /\ Len(selected) = MaxRefs /\ pc = "raised"

\* at a merge step: the warp of the current calexp gave an exposure for w
WarpPresent(w) == warpedAndMatched[w] # None

\* the number of good pixels of the exposure warped for w
GoodPixels(w) ==
    Cardinality({p \in Pixels :
        IsGoodPixel(warpedAndMatched[w][1].image[p], getBadPixelMask)})

\* the record line 405 makes of the current calexp for w
RecordOf(w) == [ccdId |-> ccdId, goodPix |-> GoodPixels(w), calib |-> calExp[1].calib]

\* the merge into w divides by a zero fluxMag0 (lines 388-389)
RaisesAt(w) ==
    WarpPresent(w) /\ didSetMetadata[w] /\ warpedAndMatched[w][1].calib = 0

\* the warp types the loop of line 380 takes before w
Before(w) ==
    LET l == getWarpTypeList(config)
    IN {l[k] : k \in {j \in 1..Len(l) : \E m \in (j + 1)..Len(l) : l[m] = w}}

\* the body of the loop is run for w, and runs to its end
Reached(w) == \A v \in Before(w) : ~RaisesAt(v)
Completed(w) == Reached(w) /\ WarpPresent(w) /\ ~RaisesAt(w)

GrowsByAtMostOne(p, q) ==
    /\ Len(p) <= Len(q) /\ Len(q) <= Len(p) + 1
    /\ \A k \in 1..Len(p) : q[k] = p[k]

\* a step that leaves every table as it was or appends one record to it,
\* and appends only when it merges a calexp and goes on to the next
TablesGrow ==
    \A w \in DOMAIN inputRecorder :
       /\ w \in DOMAIN inputRecorder'
       /\ GrowsByAtMostOne(inputRecorder[w].ccds, inputRecorder'[w].ccds)
       /\ (Len(inputRecorder'[w].ccds) > Len(inputRecorder[w].ccds)) =>
              (pc = "merge" /\ calExpInd' = calExpInd + 1)

\* C14: while the calexps of a visit are taken, the table of every warp type
\* only grows at its end, by at most one record per calexp taken; it never
\* has two records of one calexp, nor more records than calexps taken so
\* far, which are at most the calexps of the group.
C14_TableIsAppendOnly ==
    /\ [][(pc \in {"calexp", "warp", "merge"}) => TablesGrow]_vars
    /\ [](pc \in {"calexp", "warp", "merge", "persist"} =>
            \A w \in DOMAIN inputRecorder :
               LET ccds == inputRecorder[w].ccds
               IN /\ Len(ccds) <= calExpInd
                  /\ calExpInd <= Len(groups[i].refs)
                  /\ \A j, k \in 1..Len(ccds) : j # k => ccds[j].ccdId # ccds[k].ccdId)

\* a table with a record for each of the two calexps of a group
C14_Witness ==
    /\ pc = "calexp" /\ calExpInd = 2
    /\ \E w \in DOMAIN inputRecorder :
          /\ Len(inputRecorder[w].ccds) = 2
          /\ inputRecorder[w].ccds[1].goodPix > 0

\* createTempExp has returned for the current visit
Finalized == pc \in {"persist", "visit"} /\ exps # NoDict

\* C15: the table of a warp type is closed at most once, and only when
\* createTempExp has taken every calexp of the group and keeps the canvas of
\* that warp type; the table of a canvas that is not kept is never closed,
\* and a closed table gets no further record.
C15_TableFinishedOnceWhenKept ==
    /\ [](\A w \in DOMAIN inputRecorder :
            /\ inputRecorder[w].nFinish = IF inputRecorder[w].finished THEN 1 ELSE 0
            /\ inputRecorder[w].finished => (Finalized /\ exps[w] # None)
            /\ (Finalized /\ exps[w] = None) => ~inputRecorder[w].finished)
    /\ [](pc = "persist" =>
            /\ calExpInd = Len(groups[i].refs)
            /\ \A k \in 1..Len(groups[i].refs) : nLoads[groups[i].refs[k].id] = 1)
    /\ [][\A w \in DOMAIN inputRecorder :
            inputRecorder[w].finished =>
               (pc = "visit" \/ inputRecorder' = inputRecorder)]_vars

\* of the two warp types one canvas is kept, with its table closed, and the
\* other is not, with its table of one record left open
C15_Witness ==
    /\ pc = "persist"
    /\ \E w \in DOMAIN inputRecorder :
          exps[w] # None /\ inputRecorder[w].finished /\ inputRecorder[w].nFinish = 1
    /\ \E w \in DOMAIN inputRecorder :
          /\ exps[w] = None /\ ~inputRecorder[w].finished
          /\ Len(inputRecorder[w].ccds) = 1

\* the Psf of the first calexp that gave the canvas of w a good pixel
FirstContributorPsf(w) == mergeLog[w][Min(Contributing(w))].exposure.psf

\* C16: the exposure createTempExp returns for "direct" has the CoaddPsf
\* built from its closed table, and the one it returns for "psfMatched"
\* still has the Psf of its first contributor; until createTempExp returns,
\* no canvas has any Psf but the one it adopted, if it adopted.
C16_CoaddPsfOnDirectOnly ==
    /\ Finalized =>
          \A w \in DOMAIN exps :
             exps[w] # None =>
                IF w = "direct"
                THEN /\ exps[w][1].psf = CoaddPsf(inputRecorder[w])
                     /\ exps[w][1].psf # FirstContributorPsf(w)
                     /\ inputRecorder[w].finished
                ELSE exps[w][1].psf = FirstContributorPsf(w)
    /\ \A w \in DOMAIN coaddTempExps :
          coaddTempExps[w].psf =
             IF Contributing(w) = {} THEN NoPsf ELSE FirstContributorPsf(w)

\* both warp types are returned: "direct" with the CoaddPsf and "psfMatched"
\* with the Psf of the warped calexp
C16_Witness ==
    /\ pc = "persist"
    /\ DOMAIN exps = WarpTypes
    /\ exps["direct"] # None /\ exps["direct"][1].psf = CoaddPsf(inputRecorder["direct"])
    /\ exps["psfMatched"] # None /\ exps["psfMatched"][1].psf[1] = "psfMatched"

\* createTempExp is in its loop over the calexps of the current visit
InCalexpLoop == pc \in {"calexp", "warp", "merge"}

\* how often the k-th calexp of the current group was loaded and warped
LoadsOf(k) == nLoads[groups[i].refs[k].id]
WarpsOf(k) == nWarps[groups[i].refs[k].id]

\* the place in the current group of the calexp with identifier id
PlaceOf(id) == CHOOSE k \in 1..Len(groups[i].refs) : groups[i].refs[k].id = id

\* a step of the loop (all but the one that ends it, for which pc' is
\* "persist") takes the current calexp or none: only its counters
\* change, the loop never goes back, and the canvases change only in the
\* merge of a calexp that was loaded and warped
OnePass ==
    /\ calExpInd' \in {calExpInd, calExpInd + 1}
    /\ \A r \in RefIds :
          (nLoads'[r] # nLoads[r] \/ nWarps'[r] # nWarps[r]) => r = CurrentRef.id
    /\ nLoads' # nLoads => (pc = "calexp" /\ UNCHANGED <<dictVars, mergeLog>>)
    /\ nWarps' # nWarps => (pc = "warp" /\ UNCHANGED <<dictVars, mergeLog>>)
    /\ (LoadFails \/ WarpFails) => UNCHANGED <<dictVars, mergeLog>>
    /\ LoadFails => nWarps' = nWarps
    /\ <<dictVars, mergeLog>>' # <<dictVars, mergeLog>> =>
          /\ pc = "merge" /\ pc' = "calexp" /\ calExpInd' = calExpInd + 1
          /\ LoadsOf(calExpInd + 1) = 1 /\ WarpsOf(calExpInd + 1) = 1

\* C17: createTempExp takes the calexps of a group once each, in the order of
\* the group: a calexp is loaded at most once and warped at most once, by
\* one call for all the warp types, and never when its load failed; the
\* calexps before the current one are done with, those after it untouched,
\* and the merges of a calexp are all made, in one step, before the next
\* calexp is loaded.
C17_SinglePassInGroupOrder ==
    /\ [][(InCalexpLoop /\ pc' # "persist") => OnePass]_vars
    /\ [](\A r \in RefIds : nLoads[r] <= 1 /\ nWarps[r] <= nLoads[r])
    /\ [](InCalexpLoop =>
            /\ \A k \in 1..Len(groups[i].refs) :
                  /\ k <= calExpInd => LoadsOf(k) = 1
                  /\ k = calExpInd + 1 =>
                        /\ LoadsOf(k) = IF pc = "calexp" THEN 0 ELSE 1
                        /\ WarpsOf(k) = IF pc = "merge" THEN 1 ELSE 0
                  /\ k > calExpInd + 1 => (LoadsOf(k) = 0 /\ WarpsOf(k) = 0)
            /\ pc = "calexp" => (calExp = None /\ warpedAndMatched = NoDict)
            /\ \A w \in DOMAIN mergeLog :
                  /\ \A k \in 1..Len(mergeLog[w]) :
                        PlaceOf(mergeLog[w][k].ind) <= calExpInd
                  /\ \A j, k \in 1..Len(mergeLog[w]) :
                        j < k => PlaceOf(mergeLog[w][j].ind) < PlaceOf(mergeLog[w][k].ind))

\* the first calexp of a group of two failed to load, and so was not warped;
\* the second was loaded, warped and merged into both canvases
C17_Witness ==
    /\ pc = "calexp" /\ calExpInd = 2 /\ Len(groups[i].refs) = 2
    /\ LoadsOf(1) = 1 /\ WarpsOf(1) = 0
    /\ LoadsOf(2) = 1 /\ WarpsOf(2) = 1
    /\ DOMAIN mergeLog = WarpTypes
    /\ \A w \in WarpTypes :
          Len(mergeLog[w]) = 1 /\ PlaceOf(mergeLog[w][1].ind) = 2

\* the dictionaries of createTempExp before a merge step
MergeState ==
    [coaddTempExps |-> coaddTempExps, totGoodPix |-> totGoodPix,
     didSetMetadata |-> didSetMetadata, inputRecorder |-> inputRecorder,
     mergeLog |-> mergeLog, raised |-> FALSE]

\* what the merge of the current calexp into w alone gives
MergedAlone(w) ==
    MergeWarpType(MergeState, w, warpedAndMatched, calExp[1], calExp[1].id, ccdId)

\* the canvas, running total, adoption flag and table of w after the step
\* are those of st
SameAt(st, w) ==
    /\ coaddTempExps'[w] = st.coaddTempExps[w]
    /\ totGoodPix'[w] = st.totGoodPix[w]
    /\ didSetMetadata'[w] = st.didSetMetadata[w]
    /\ inputRecorder'[w] = st.inputRecorder[w]

\* C18: with both warp types requested, when the warp of a calexp gives None
\* for one of them and an exposure for the other, the merge leaves the
\* canvas, running total, adoption flag and table of the first as they were
\* and does to those of the second what the merge into it alone does.
C18_WarpTypesMergeIndependently ==
    [][(pc = "merge" /\ DOMAIN warpedAndMatched = WarpTypes) =>
         \A missing, present \in WarpTypes :
            (warpedAndMatched[missing] = None /\ warpedAndMatched[present] # None) =>
               /\ SameAt(MergeState, missing)
               /\ SameAt(MergedAlone(present), present)
               /\ (lastError' = "merge") = MergedAlone(present).raised]_vars

\* the warp of the first calexp gave nothing for "direct", which comes first
\* in the list, and good pixels for "psfMatched", which has them
C18_Witness ==
    /\ pc = "calexp" /\ calExpInd = 1 /\ WarpsOf(1) = 1
    /\ DOMAIN mergeLog = WarpTypes
    /\ mergeLog["direct"] = <<>> /\ inputRecorder["direct"].ccds = <<>>
    /\ Len(mergeLog["psfMatched"]) = 1
    /\ totGoodPix["psfMatched"] > 0 /\ didSetMetadata["psfMatched"]

\* C19: when the merge of a calexp raises, whichever warp type it raises
\* for, no canvas, running total, adoption flag or table keeps anything of
\* that calexp.
C19_MergeIsAtomic ==
    [][(pc = "merge" /\ lastError' = "merge") => UNCHANGED dictVars]_vars

\* the sum of the numbers of good pixels of the records of a table
RECURSIVE SumGoodPix(_)
SumGoodPix(ccds) ==
    IF ccds = <<>> THEN 0 ELSE Head(ccds).goodPix + SumGoodPix(Tail(ccds))

DataPixels(w) == {p \in Pixels : NO_DATA \notin coaddTempExps[w].image[p].mask}

\* C21: for every warp type, all through the loop over the calexps, the
\* running total of good pixels is the number of pixels of the canvas that
\* are no longer NO_DATA, and so is at most the number of pixels of the
\* bounding box.
C21_TotalIsCanvasCoverage ==
    \A w \in DOMAIN coaddTempExps :
       /\ totGoodPix[w] = Cardinality(DataPixels(w))
       /\ totGoodPix[w] <= Cardinality(Pixels)

\* the primary dataset of a visit
PrimaryDataset(visit) == <<visit, primaryWarpDataset(config)>>

\* C22: with doWrite enabled, when run returns its list, the primary dataset
\* of every visit of the list is in the butler: it was there when run began,
\* or this run put the canvas of the primary warp type for that visit.
C22_ListedPrimaryExists ==
    (pc = "returned" /\ result # None /\ config.doWrite) =>
        \A v \in Range(result[1]) :
           /\ PrimaryDataset(v) \in sink
           /\ ExistedAtStart(v) \/ nPuts[PrimaryDataset(v)] = 1

====
